---- MODULE Spec2Model ----
(***************************************************************************)
(* scripts/ingest_confluence.py: LocalIngestWorker.                        *)
(*                                                                         *)
(* A worker holds an ingestion service and a Confluence loader.            *)
(* ingest_space(space) asks the loader for the documents of a space and    *)
(* hands every document to ingest_service.ingest_text, with the SHA-1 hex  *)
(* digest of the UTF-8 encoding of the document's text as its identifier.  *)
(*                                                                         *)
(* A Python str is a sequence of Unicode code points (integers), a bytes   *)
(* value a sequence of integers 0..255, a hex digest a TLA+ string.  A     *)
(* 32-bit word of the hash is a pair <<high, low>> of 16-bit halves.       *)
(***************************************************************************)
EXTENDS Integers, Sequences, FiniteSets, TLC

VARIABLES
    total_documents,         \* self.total_documents
    current_document_count,  \* self.current_document_count
    pc,                      \* position inside ingest_space, "idle" outside it
    documents,               \* the local `documents`
    it,                      \* the for statement's iterator: items not yet taken
    i,                       \* number of items the for statement has taken
    d,                       \* the loop variable d (its page_content)
    sha1,                    \* the local `sha1`: the bytes fed to the hash object (between
                             \* documents and calls: the last one bound, never read)
    calls,                   \* ingest_text calls made by the current ingest_space call
    loads,                   \* confluence_loader.load calls made by the current call
    outcome,                 \* how the last ingest_space call ended
    exc,                     \* the exception it raised
    run,                     \* ingest_space calls started on this worker
    ingested,                \* submissions that returned normally, over all calls
    prev                     \* the preceding ingest_space call: documents, calls, outcome

vars == <<total_documents, current_document_count, pc, documents, it, i, d, sha1,
          calls, loads, outcome, exc, run, ingested, prev>>

-----------------------------------------------------------------------------
(* Bounds of the model.                                                    *)

MaxDocs == 2

MaxRuns == 2

\* "Hello world"
HelloWorld == <<72, 101, 108, 108, 111, 32, 119, 111, 114, 108, 100>>

\* U+00E9, U+20AC, U+1F600 seven times over: characters of two, three and four
\* bytes in UTF-8, 63 bytes in all, so that the padded message takes two blocks
Accented == [k \in 1..21 |-> <<233, 8364, 128512>>[((k - 1) % 3) + 1]]

\* "x" and the lone surrogate U+DC00, as json.loads('"x\\udc00"') gives: a str
\* that has no UTF-8 encoding
Surrogate == <<120, 56320>>

\* the page contents a document can have
Contents == {<<>>, HelloWorld, Accented, Surrogate}

\* the exceptions the loader raises
LoaderErrors == {"AuthenticationError", "NotFoundError"}

\* the exceptions ingest_text raises
IngestErrors == {"IngestError"}

RECURSIVE SeqsUpTo(_, _)
SeqsUpTo(S, n) ==
    IF n = 0 THEN {<<>>}
    ELSE LET shorter == SeqsUpTo(S, n - 1)
         IN  shorter \cup {Append(s, x) : s \in {t \in shorter : Len(t) = n - 1}, x \in S}

\* the document lists the loader can return
DocLists == SeqsUpTo(Contents, MaxDocs)

-----------------------------------------------------------------------------
(* str.encode("utf-8")                                                     *)

\* The result of an encoding: the bytes, or the exception raised instead.
Encoded(bytes) == [exc |-> "none", bytes |-> bytes]

EncodeError == [exc |-> "UnicodeEncodeError", bytes |-> <<>>]

\* the encoding of one character; a surrogate (U+D800..U+DFFF) has none
EncodeChar(c) ==
    IF c < 128 THEN Encoded(<<c>>)
    ELSE IF c < 2048 THEN Encoded(<<192 + (c \div 64), 128 + (c % 64)>>)
    ELSE IF c \in 55296..57343 THEN EncodeError
    ELSE IF c < 65536 THEN
        Encoded(<<224 + (c \div 4096), 128 + ((c \div 64) % 64), 128 + (c % 64)>>)
    ELSE Encoded(<<240 + (c \div 262144), 128 + ((c \div 4096) % 64),
                   128 + ((c \div 64) % 64), 128 + (c % 64)>>)

\* the encoding of the characters of text from the k-th on
RECURSIVE EncodeFrom(_, _)
EncodeFrom(text, k) ==
    IF k > Len(text) THEN Encoded(<<>>)
    ELSE LET first == EncodeChar(text[k])
             rest  == EncodeFrom(text, k + 1)
         IN  IF first.exc # "none" THEN first
             ELSE IF rest.exc # "none" THEN rest
             ELSE Encoded(first.bytes \o rest.bytes)

\* mutant: one byte per character, as a single-byte codec would give
Encode_latin1(text) == Encoded([k \in 1..Len(text) |-> text[k] % 256])

Encode(text) == EncodeFrom(text, 1)

-----------------------------------------------------------------------------
(* hashlib.sha1: FIPS 180-4 SHA-1 over a sequence of bytes.                *)

RECURSIVE BitAnd(_, _)
BitAnd(a, b) ==
    IF a = 0 \/ b = 0 THEN 0
    ELSE (a % 2) * (b % 2) + 2 * BitAnd(a \div 2, b \div 2)

RECURSIVE BitXor(_, _)
BitXor(a, b) ==
    IF a = 0 THEN b
    ELSE IF b = 0 THEN a
    ELSE ((a + b) % 2) + 2 * BitXor(a \div 2, b \div 2)

BitOr(a, b) == a + b - BitAnd(a, b)

WAnd(x, y) == <<BitAnd(x[1], y[1]), BitAnd(x[2], y[2])>>

WXor(x, y) == <<BitXor(x[1], y[1]), BitXor(x[2], y[2])>>

WOr(x, y) == <<BitOr(x[1], y[1]), BitOr(x[2], y[2])>>

WNot(x) == <<65535 - x[1], 65535 - x[2]>>

\* addition modulo 2^32
WAdd(x, y) ==
    LET lo == x[2] + y[2]
    IN  <<(x[1] + y[1] + (lo \div 65536)) % 65536, lo % 65536>>

\* rotation to the left by n bits, 0 < n < 16
RotlSmall(x, n) ==
    LET up   == 2 ^ n
        down == 2 ^ (16 - n)
    IN  <<((x[1] * up) % 65536) + (x[2] \div down),
          ((x[2] * up) % 65536) + (x[1] \div down)>>

Rotl(x, n) ==
    IF n = 16 THEN <<x[2], x[1]>>
    ELSE IF n < 16 THEN RotlSmall(x, n)
    ELSE RotlSmall(<<x[2], x[1]>>, n - 16)

\* the message followed by 0x80, zeros up to 56 modulo 64, and its bit length
\* as a 64-bit big-endian integer
Pad(msg) ==
    LET n     == Len(msg)
        zeros == (119 - (n % 64)) % 64
        bits  == 8 * n
    IN  msg \o <<128>> \o [k \in 1..zeros |-> 0]
            \o <<0, 0, 0, 0, (bits \div 16777216) % 256, (bits \div 65536) % 256,
                 (bits \div 256) % 256, bits % 256>>

\* the t-th big-endian word (t in 0..15) of the block that starts after `off` bytes
BlockWord(p, off, t) ==
    LET b == off + 4 * t
    IN  <<256 * p[b + 1] + p[b + 2], 256 * p[b + 3] + p[b + 4]>>

\* the message schedule W[0..79] of a block, as a sequence indexed from 1
RECURSIVE Schedule(_, _, _)
Schedule(p, off, w) ==
    IF Len(w) = 80 THEN w
    ELSE LET t == Len(w)
             next == IF t < 16 THEN BlockWord(p, off, t)
                     ELSE Rotl(WXor(WXor(w[t - 2], w[t - 7]),
                                    WXor(w[t - 13], w[t - 15])), 1)
         IN  Schedule(p, off, Append(w, next))

RoundF(t, b, c, e) ==
    IF t < 20 THEN WOr(WAnd(b, c), WAnd(WNot(b), e))
    ELSE IF t < 40 THEN WXor(WXor(b, c), e)
    ELSE IF t < 60 THEN WOr(WOr(WAnd(b, c), WAnd(b, e)), WAnd(c, e))
    ELSE WXor(WXor(b, c), e)

RoundK(t) ==
    IF t < 20 THEN <<23170, 31129>>
    ELSE IF t < 40 THEN <<28377, 60321>>
    ELSE IF t < 60 THEN <<36635, 48348>>
    ELSE <<51810, 49622>>

\* one round on s = <<t, a, b, c, d, e>>: the round number and the working variables
Round(s, w) ==
    LET t    == s[1]
        temp == WAdd(WAdd(WAdd(Rotl(s[2], 5), RoundF(t, s[3], s[4], s[5])),
                          WAdd(s[6], RoundK(t))), w[t + 1])
    IN  <<t + 1, temp, s[2], Rotl(s[3], 30), s[4], s[5]>>

\* the rounds that remain after s, up to round 79
RECURSIVE Rounds(_, _)
Rounds(s, w) == IF s[1] = 80 THEN s ELSE Rounds(Round(s, w), w)

\* the hash value after the blocks that start at `off` and later
RECURSIVE Blocks(_, _, _)
Blocks(p, off, h) ==
    IF off >= Len(p) THEN h
    ELSE LET s == Rounds(<<0>> \o h, Schedule(p, off, <<>>))
         IN  Blocks(p, off + 64, [k \in 1..5 |-> WAdd(h[k], s[k + 1])])

InitialHash ==
    <<<<26437, 8961>>, <<61389, 43913>>, <<39098, 56574>>, <<4146, 21622>>,
      <<50130, 57840>>>>

HexDigit(n) ==
    CASE n = 0 -> "0" [] n = 1 -> "1" [] n = 2 -> "2" [] n = 3 -> "3"
      [] n = 4 -> "4" [] n = 5 -> "5" [] n = 6 -> "6" [] n = 7 -> "7"
      [] n = 8 -> "8" [] n = 9 -> "9" [] n = 10 -> "a" [] n = 11 -> "b"
      [] n = 12 -> "c" [] n = 13 -> "d" [] n = 14 -> "e" [] n = 15 -> "f"

Hex16(n) ==
    HexDigit(n \div 4096) \o HexDigit((n \div 256) % 16)
        \o HexDigit((n \div 16) % 16) \o HexDigit(n % 16)

HexWord(x) == Hex16(x[1]) \o Hex16(x[2])

\* the 40 hexadecimal digits of the SHA-1 of a byte sequence
Sha1Hex(msg) ==
    LET h == Blocks(Pad(msg), 0, InitialHash)
    IN  HexWord(h[1]) \o HexWord(h[2]) \o HexWord(h[3]) \o HexWord(h[4]) \o HexWord(h[5])

\* the digests of the encoded Contents, computed once
DigestTable ==
    [m \in {Encode(c).bytes : c \in {x \in Contents : Encode(x).exc = "none"}} |-> Sha1Hex(m)]

-----------------------------------------------------------------------------
(* The statements of ingest_space.                                         *)

\* mutant: one hash object, made once and fed by every document
hashlib_sha1_reused == sha1

\* hashlib.sha1(): a new hash object, nothing fed to it
hashlib_sha1 == <<>>

\* sha1.update(data): the hash object has been fed data after what it held
sha1_update(h, data) == h \o data

\* sha1.hexdigest(): the digest of everything fed to the hash object
hexdigest(h) == IF h \in DOMAIN DigestTable THEN DigestTable[h] ELSE Sha1Hex(h)

RECURSIVE Dedup(_, _)
Dedup(docs, seen) ==
    IF docs = <<>> THEN <<>>
    ELSE IF Head(docs) \in seen THEN Dedup(Tail(docs), seen)
    ELSE <<Head(docs)>> \o Dedup(Tail(docs), seen \cup {Head(docs)})

\* mutant: a content already seen is skipped
IterTargets_dedup(docs) == Dedup(docs, {})

\* mutant: the documents are visited last to first
IterTargets_reversed(docs) == [k \in 1..Len(docs) |-> docs[Len(docs) + 1 - k]]

NonEmpty(text) == text # <<>>

\* mutant: a document without text is skipped
IterTargets_nonempty(docs) == SelectSeq(docs, NonEmpty)

\* the items `for d in documents` visits, in the order it visits them
IterTargets(docs) == docs

\* the arguments of ingest_text: the digest of the hash object, the page content
IngestTextArgs(h, text) == [id |-> hexdigest(h), text |-> text]

\* mutant: the exception is caught and the loop goes on
Unwind_swallow(e) == [pc |-> "for", outcome |-> "running", exc |-> "none"]

\* mutant: the exception is caught and the failed call is made again
Unwind_retry(e) == [pc |-> pc, outcome |-> "running", exc |-> "none"]

\* ingest_space has no try statement: an exception of a callee ends the call
Unwind(e) == [pc |-> "idle", outcome |-> "raised", exc |-> e]

\* mutant: an empty document list is reported as an error
Return_nonempty ==
    IF documents = <<>> THEN [pc |-> "idle", outcome |-> "raised", exc |-> "ValueError"]
    ELSE [pc |-> "idle", outcome |-> "returned", exc |-> "none"]

\* falling off the end of the for statement: the call returns None
Return == [pc |-> "idle", outcome |-> "returned", exc |-> "none"]

\* what is kept of a call once it has ended
Ended == [documents |-> documents, ids |-> [k \in 1..Len(calls) |-> calls[k].id],
          outcome |-> outcome, exc |-> exc]

NoRun == [documents |-> <<>>, ids |-> <<>>, outcome |-> "none", exc |-> "none"]

Leave(u) ==
    /\ pc' = u.pc
    /\ outcome' = u.outcome
    /\ exc' = u.exc

-----------------------------------------------------------------------------

\* LocalIngestWorker.__init__
Init ==
    /\ total_documents = 0
    /\ current_document_count = 0
    /\ pc = "idle"
    /\ documents = <<>>
    /\ it = <<>>
    /\ i = 0
    /\ d = <<>>
    /\ sha1 = <<>>
    /\ calls = <<>>
    /\ loads = <<>>
    /\ outcome = "none"
    /\ exc = "none"
    /\ run = 0
    /\ ingested = 0
    /\ prev = NoRun

\* worker.ingest_space(space) is called and calls confluence_loader.load
IngestSpace ==
    /\ pc = "idle"
    /\ run < MaxRuns
    /\ run' = run + 1
    /\ prev' = IF run = 0 THEN NoRun ELSE Ended
    /\ pc' = "load"
    /\ outcome' = "running"
    /\ exc' = "none"
    /\ documents' = <<>>
    /\ it' = <<>>
    /\ i' = 0
    /\ d' = <<>>
    /\ calls' = <<>>
    /\ loads' = <<>>
    /\ UNCHANGED <<total_documents, current_document_count, sha1, ingested>>

\* load returns the list of documents; the for statement takes an iterator on it
LoadReturn(docs) ==
    /\ pc = "load"
    /\ loads' = Append(loads, "ok")
    /\ documents' = docs
    /\ it' = IterTargets(docs)
    /\ i' = 0
    /\ pc' = "for"
    /\ UNCHANGED <<total_documents, current_document_count, d, sha1, calls, outcome,
                   exc, run, ingested, prev>>

\* load raises
LoadRaise(e) ==
    /\ pc = "load"
    /\ loads' = Append(loads, e)
    /\ Leave(Unwind(e))
    /\ UNCHANGED <<total_documents, current_document_count, documents, it, i, d, sha1,
                   calls, run, ingested, prev>>

\* for d in documents: the next document
ForNext ==
    /\ pc = "for"
    /\ it # <<>>
    /\ d' = Head(it)
    /\ it' = Tail(it)
    /\ i' = i + 1
    /\ pc' = "new"
    /\ UNCHANGED <<total_documents, current_document_count, documents, sha1, calls,
                   loads, outcome, exc, run, ingested, prev>>

\* for d in documents: no document is left
ForEnd ==
    /\ pc = "for"
    /\ it = <<>>
    /\ Leave(Return)
    /\ UNCHANGED <<total_documents, current_document_count, documents, it, i, d, sha1,
                   calls, loads, run, ingested, prev>>

\* sha1 = hashlib.sha1()
NewSha1 ==
    /\ pc = "new"
    /\ sha1' = hashlib_sha1
    /\ pc' = "update"
    /\ UNCHANGED <<total_documents, current_document_count, documents, it, i, d, calls,
                   loads, outcome, exc, run, ingested, prev>>

\* sha1.update(d.page_content.encode("utf-8"))
Update ==
    /\ pc = "update"
    /\ Encode(d).exc = "none"
    /\ sha1' = sha1_update(sha1, Encode(d).bytes)
    /\ pc' = "ingest"
    /\ UNCHANGED <<total_documents, current_document_count, documents, it, i, d, calls,
                   loads, outcome, exc, run, ingested, prev>>

\* d.page_content.encode("utf-8") raises: update is not called
EncodeRaise ==
    /\ pc = "update"
    /\ Encode(d).exc # "none"
    /\ Leave(Unwind(Encode(d).exc))
    /\ UNCHANGED <<total_documents, current_document_count, documents, it, i, d, sha1,
                   calls, loads, run, ingested, prev>>

\* self.ingest_service.ingest_text(sha1.hexdigest(), d.page_content) is called
IngestCall ==
    /\ pc = "ingest"
    /\ calls' = Append(calls, IngestTextArgs(sha1, d) @@ [result |-> "pending"])
    /\ pc' = "wait"
    /\ UNCHANGED <<total_documents, current_document_count, documents, it, i, d, sha1,
                   loads, outcome, exc, run, ingested, prev>>

\* ingest_text returns
IngestReturn ==
    /\ pc = "wait"
    /\ calls' = [calls EXCEPT ![Len(calls)].result = "ok"]
    /\ ingested' = ingested + 1
    /\ pc' = "for"
    /\ UNCHANGED <<total_documents, current_document_count, documents, it, i, d, sha1,
                   loads, outcome, exc, run, prev>>

\* ingest_text raises
IngestRaise(e) ==
    /\ pc = "wait"
    /\ calls' = [calls EXCEPT ![Len(calls)].result = e]
    /\ Leave(Unwind(e))
    /\ UNCHANGED <<total_documents, current_document_count, documents, it, i, d, sha1,
                   loads, run, ingested, prev>>

Next ==
    \/ IngestSpace
    \/ \E docs \in DocLists : LoadReturn(docs)
    \/ \E e \in LoaderErrors : LoadRaise(e)
    \/ ForNext
    \/ ForEnd
    \/ NewSha1
    \/ Update
    \/ EncodeRaise
    \/ IngestCall
    \/ IngestReturn
    \/ \E e \in IngestErrors : IngestRaise(e)

Spec == Init /\ [][Next]_vars

-----------------------------------------------------------------------------
(* Properties.                                                             *)

Ids == [k \in 1..Len(calls) |-> calls[k].id]

\* the call has ended, the load succeeded and no submission failed
EndedUnfailed ==
    /\ pc = "idle"
    /\ run > 0
    /\ loads = <<"ok">>
    /\ \A k \in 1..Len(calls) : calls[k].result \notin IngestErrors

\* hashlib.sha1(b"").hexdigest()
EmptyDigest == "da39a3ee5e6b4b0d3255bfef95601890afd80709"

\* hashlib.sha1("Hello world".encode("utf-8")).hexdigest()
HelloWorldDigest == "7b502c3a1f48c8609ae212cdfb639dee39673f5e"

\* hashlib.sha1(("é€\U0001f600" * 7).encode("utf-8")).hexdigest()
AccentedDigest == "3e77e1df35c45340a414983b9ede348d1d186db1"

\* C1: when the load returned N documents and no submission failed, the call
\* returns after exactly N ingest_text calls, the k-th carrying the text of the
\* k-th document returned.
C1_EveryDocumentOnceInOrder ==
    EndedUnfailed =>
        /\ outcome = "returned"
        /\ Len(calls) = Len(documents)
        /\ \A k \in 1..Len(calls) :
              calls[k].text = documents[k] /\ calls[k].result = "ok"

\* the digest of the UTF-8 encoding of each text that has one
TextDigest ==
    [c \in {x \in Contents : Encode(x).exc = "none"} |-> Sha1Hex(Encode(c).bytes)]

\* C2: the identifier of every ingest_text call is the SHA-1 hex digest of the
\* UTF-8 encoding of the text of that same call, whatever came before it: calls
\* with the same text carry the same identifier, in this call of ingest_space and
\* in the one before it.
C2_IdentifierIsDigestOfText ==
    /\ \A k \in 1..Len(calls) :
          /\ calls[k].text \in DOMAIN TextDigest
          /\ calls[k].id = TextDigest[calls[k].text]
          /\ calls[k].text = <<>> => calls[k].id = EmptyDigest
          /\ calls[k].text = HelloWorld => calls[k].id = HelloWorldDigest
          /\ calls[k].text = Accented => calls[k].id = AccentedDigest
    /\ \A j, k \in 1..Len(calls) :
          calls[j].text = calls[k].text => calls[j].id = calls[k].id
    /\ \A j \in 1..Len(prev.ids), k \in 1..Len(calls) :
          prev.documents[j] = calls[k].text => prev.ids[j] = calls[k].id

C2_Witness ==
    /\ Len(calls) = 2
    /\ calls[1].text = HelloWorld
    /\ calls[1].id = HelloWorldDigest
    /\ calls[2].text = Accented
    /\ calls[2].id = AccentedDigest
    /\ run = 2
    /\ prev.ids = <<AccentedDigest, EmptyDigest>>

\* C3: when ingest_text raises on the k-th document the call ends there with that
\* exception: the failed call is the last one, documents 1..k-1 were each
\* submitted once and returned, document k was submitted once, and nothing is
\* submitted after it.
C3_FailureAbortsTheLoop ==
    \A k \in 1..Len(calls) :
        calls[k].result \in IngestErrors =>
            /\ k = Len(calls)
            /\ pc = "idle"
            /\ outcome = "raised"
            /\ exc = calls[k].result
            /\ k <= Len(documents)
            /\ \A j \in 1..k : calls[j].text = documents[j]
            /\ \A j \in 1..(k - 1) : calls[j].result = "ok"

C3_Witness ==
    /\ Len(documents) = 2
    /\ Len(calls) = 1
    /\ calls[1].result \in IngestErrors
    /\ outcome = "raised"
    /\ exc = calls[1].result
    /\ pc = "idle"

\* C4: documents with identical text are all submitted: after a call that
\* returned the number of calls is the number of documents, more than the number
\* of distinct texts when a text repeats, and repeated texts carry one identifier.
C4_NoDeduplication ==
    (/\ pc = "idle"
     /\ outcome = "returned"
     /\ \E j, k \in 1..Len(documents) : j # k /\ documents[j] = documents[k]) =>
        /\ Len(calls) = Len(documents)
        /\ Len(calls) > Cardinality({documents[k] : k \in 1..Len(documents)})
        /\ \A j, k \in 1..Len(documents) :
              documents[j] = documents[k] =>
                  /\ calls[j].id = calls[k].id
                  /\ calls[j].text = calls[k].text
                  /\ calls[j].text = documents[j]

C4_Witness ==
    /\ pc = "idle"
    /\ outcome = "returned"
    /\ documents = <<HelloWorld, HelloWorld>>
    /\ Len(calls) = 2
    /\ calls[1].id = HelloWorldDigest
    /\ calls[2].id = HelloWorldDigest

\* C5: when the load returns no document, ingest_space calls ingest_text not once
\* and returns without raising.
C5_EmptySpace ==
    (run > 0 /\ loads = <<"ok">> /\ documents = <<>>) =>
        /\ calls = <<>>
        /\ exc = "none"
        /\ pc \in {"for", "idle"}
        /\ pc = "idle" => outcome = "returned"

C5_Witness ==
    /\ pc = "idle"
    /\ loads = <<"ok">>
    /\ documents = <<>>
    /\ outcome = "returned"
    /\ calls = <<>>

\* C6: a document whose text is empty is submitted like any other: once the
\* loop has come to it and passed line 73, the call made for it carries the digest
\* of the empty byte sequence as identifier and the empty text.
C6_EmptyContentSubmitted ==
    \A k \in 1..Len(documents) :
        (documents[k] = <<>> /\ (k < i \/ (k = i /\ pc \in {"wait", "for", "idle"}))) =>
            /\ Len(calls) >= k
            /\ calls[k].id = EmptyDigest
            /\ calls[k].text = <<>>

C6_Witness ==
    /\ pc = "idle"
    /\ outcome = "returned"
    /\ documents = <<HelloWorld, <<>>>>
    /\ Len(calls) = 2
    /\ calls[2] = [id |-> EmptyDigest, text |-> <<>>, result |-> "ok"]

\* C7: two calls in a row that get the same document list and in which no
\* submission fails submit the same sequence of identifiers.
C7_RerunSameIdentifiers ==
    (/\ pc = "idle"
     /\ run > 1
     /\ exc \notin IngestErrors \cup LoaderErrors
     /\ prev.exc \notin IngestErrors \cup LoaderErrors
     /\ prev.documents = documents) => Ids = prev.ids

C7_Witness ==
    /\ EndedUnfailed
    /\ run = 2
    /\ prev.outcome = "returned"
    /\ prev.documents = documents
    /\ documents = <<Accented, HelloWorld>>
    /\ Ids = <<AccentedDigest, HelloWorldDigest>>
    /\ prev.ids = Ids

\* C8: when load raises, the call ends with that exception after this one load
\* and without any ingest_text call.
C8_LoadFailurePropagates ==
    (\E k \in 1..Len(loads) : loads[k] \in LoaderErrors) =>
        /\ Len(loads) = 1
        /\ pc = "idle"
        /\ outcome = "raised"
        /\ exc = loads[1]
        /\ calls = <<>>

C8_Witness ==
    /\ loads = <<"NotFoundError">>
    /\ exc = "NotFoundError"
    /\ outcome = "raised"
    /\ calls = <<>>
    /\ run = 2
    /\ prev.outcome = "returned"
    /\ Len(prev.ids) = 2

\* C9: after a call has returned, total_documents is the number of documents
\* ingested so far and current_document_count the number ingested by this call.
C9_CountersTrackIngestion ==
    (pc = "idle" /\ outcome = "returned") =>
        /\ total_documents = ingested
        /\ current_document_count = Cardinality({k \in 1..Len(calls) : calls[k].result = "ok"})

\* C10 as stated: while document i is being submitted no document after i has
\* been fetched, and no other submission is pending.
C10_NextFetchedAfterSubmit ==
    pc = "wait" =>
        /\ Len(documents) <= i
        /\ \A k \in 1..Len(calls) : calls[k].result = "pending" => k = Len(calls)

\* C10 as amended: the one load has returned the whole list before the first
\* document is hashed, so the documents after i are already fetched while
\* document i is processed; the documents are hashed and submitted one at a
\* time in list order, document i after the submissions of documents 1..i-1 have
\* returned, and at most one submission is pending.
C10_LoadedFirstThenOneAtATime ==
    /\ pc \in {"new", "update", "ingest", "wait"} =>
          /\ loads = <<"ok">>
          /\ i \in 1..Len(documents)
          /\ d = documents[i]
          /\ it = SubSeq(documents, i + 1, Len(documents))
          /\ Len(calls) = IF pc = "wait" THEN i ELSE i - 1
          /\ \A k \in 1..(i - 1) : calls[k].text = documents[k] /\ calls[k].result = "ok"
    /\ \A k \in 1..Len(calls) :
          calls[k].result = "pending" =>
              /\ pc = "wait"
              /\ k = Len(calls)
              /\ calls[k].text = d

C10_Witness ==
    /\ pc = "wait"
    /\ i = 1
    /\ Len(documents) = 2
    /\ it = <<documents[2]>>
    /\ calls[1].result = "pending"

====
